---- MODULE Spec2Model ----
(***************************************************************************)
(* A model of enc (avahowell/enc): the chunked XChaCha20-Poly1305 stream   *)
(* layer of boxbuf.go (EncWriter, DecReader) and the file operations       *)
(* encryptFile / decryptFile built on it.                                  *)
(*                                                                         *)
(* Cryptography is symbolic.  An AEAD ciphertext is the term               *)
(* Seal(key, nonce, plaintext); it opens only under the same key and nonce *)
(* and only if no byte of it was changed.  A MAC is the term               *)
(* <<macKey, bytes>>, a derived key the term of the KDF's arguments.       *)
(*                                                                         *)
(* A byte stream of frames is a sequence of frame records.  Each record    *)
(* says how many of the frame's bytes are present (got), so that a         *)
(* truncation at any byte and a short write are states of the model, and   *)
(* what io.ReadFull / binary.Read return is computed from byte counts.     *)
(***************************************************************************)
EXTENDS Integers, Sequences, FiniteSets, TLC

(***************************************************************************)
(* Sizes.  maxChunkSize is 16384 in boxbuf.go:33; the model scales it down *)
(* so that inputs of several chunks are enumerable.  All other sizes are   *)
(* the program's.                                                          *)
(***************************************************************************)
maxChunkSize == 2
Overhead == 16
NonceSize == 24
LenSize == 8
ByteMod == 256

\* Number of Write calls the stream scenario makes on one EncWriter.
MaxWrites == 2

\* Nonces are the positive integers.
\* The outcome of io.ReadFull(rand.Reader, ..) failing.
RngFail == 0 - 1
\* A nonce field whose bytes are not those of any drawn nonce.
BadNonce == 0 - 2

\* Longest slice passed to one Write call: two full chunks and one byte.
MaxSlice == 2 * maxChunkSize + 1
\* Longest buffer passed to one Read call by the stream scenario.
MaxReadBuf == 2 * maxChunkSize + 1

\* Secret keys of the stream scenario (32 random bytes each).
StreamKeys == {<<0, 1>>, <<0, 2>>}
NoKey == <<>>

\* Errors an arbitrary io.Writer may return.
SinkErrs == {"ENOSPC"}

RECURSIVE SumGot(_)
SumGot(s) == IF s = <<>> THEN 0 ELSE Head(s).got + SumGot(Tail(s))

(***************************************************************************)
(* AEAD and frames                                                         *)
(***************************************************************************)
\* aead.Seal(nil, nonce, buf, nil)
Seal(key, nonce, pt) == [key |-> key, nonce |-> nonce, pt |-> pt]

\* len(encryptedData)
CtLen(ct) == Len(ct.pt) + Overhead

\* Bytes of one whole frame: nonce, length field, ciphertext.
FrameSize(ct) == NonceSize + LenSize + CtLen(ct)

\* The first got bytes of the frame nonce || u64le(len(ct)) || ct.
Frame(nonce, ct, got) ==
    [nonce |-> nonce, len |-> CtLen(ct), ct |-> ct, ctok |-> TRUE, got |-> got]

Whole(f) == f.got = FrameSize(f.ct)

\* The plaintext carried by a sequence of frames, in order.
RECURSIVE Plain(_)
Plain(s) == IF s = <<>> THEN <<>> ELSE Head(s).ct.pt \o Plain(Tail(s))

VARIABLES
    w,       \* the EncWriter and the frame of its Write call
    sink,    \* the bytes written to w.out (for encryptFile: the temp file after the header)
    hashIn,  \* the bytes written to the hash side of io.MultiWriter(hash, output)
    r,       \* the DecReader and the frame of its Read call
    src,     \* the bytes of r.in, from the offset the reader was created at
    h,       \* the stream scenario's record of what it wrote and read
    enc,     \* the frame of encryptFile
    dec,     \* the frame of decryptFile
    fs       \* the files: the plaintext input, <output> and <output>.temp of both operations

vars == <<w, sink, hashIn, r, src, h, enc, dec, fs>>

(***************************************************************************)
(* Changes to a byte stream of frames made outside the program             *)
(***************************************************************************)
\* Byte counts of a frame at and next to its field boundaries.
CutPoints(f) ==
    {g \in 0..(f.got - 1) :
        g \in {0, 1, NonceSize, NonceSize + 1,
               NonceSize + LenSize, NonceSize + LenSize + 1, FrameSize(f.ct) - 1}}

\* s cut inside (or, for g = 0, right before) frame j.
Trunc(s, j, g) ==
    SubSeq(s, 1, j - 1) \o (IF g = 0 THEN <<>> ELSE <<[s[j] EXCEPT !.got = g]>>)

Truncations(s) == UNION {{Trunc(s, j, g) : g \in CutPoints(s[j])} : j \in 1..Len(s)}

\* Values a length field v can take after one of its eight bytes changed.
MutLens(v) == {x \in {0, v - 1, v + 1, v + ByteMod} : x >= 0 /\ x # v}

\* s with one byte of one whole frame changed: in the nonce, in the length
\* field or in the ciphertext.
Mutations(s) ==
    UNION {
        (  {[s EXCEPT ![j].nonce = BadNonce]}
         \cup {[s EXCEPT ![j].len = x] : x \in MutLens(s[j].len)}
         \cup {[s EXCEPT ![j].ctok = FALSE]})
        : j \in {k \in 1..Len(s) : Whole(s[k])}}

Tamperings(s) == Truncations(s) \cup Mutations(s)

(***************************************************************************)
(* EncWriter                                                               *)
(***************************************************************************)
\* NewWriter(secretKey, out): out is "buffer" (bytes.Buffer, never fails),
\* "writer" (any io.Writer) or "multi" (io.MultiWriter(hash, output)).
NewWriter(secretKey, out) ==
    [secretKey |-> secretKey, out |-> out, buf |-> <<>>, usedNonces |-> {},
     pc |-> "idle", p |-> <<>>, i |-> 0, n |-> 0, err |-> "nil",
     base |-> 0, sinkErr |-> "nil"]

NoWriter == [NewWriter(NoKey, "none") EXCEPT !.pc = "off"]

\* What rand.Reader can return to a writer: an error, a nonce it returned
\* before, or a new one.  Nonces are only ever compared for equality, so the
\* new one is always the least unused.
Draws(wr) == {RngFail} \cup wr.usedNonces \cup {Cardinality(wr.usedNonces) + 1}

\* What the three writes of writeChunk to w.out can do: all succeed (at = 0),
\* or write number at fails after k of its bytes were written (nothing of the
\* nonce, one byte of the length field, two bytes of the ciphertext).
SinkOutcomes(out) ==
    {[at |-> 0, k |-> 0, err |-> "nil"]} \cup
    (IF out = "buffer" THEN {}
     ELSE {[at |-> a, k |-> a - 1, err |-> e] : a \in 1..3, e \in SinkErrs})

\* Bytes of the frame that reached w.out / the hash under outcome oc.
\* io.MultiWriter writes each slice to the hash first and then to the file.
SinkGot(ct, oc) ==
    CASE oc.at = 0 -> FrameSize(ct)
      [] oc.at = 1 -> oc.k
      [] oc.at = 2 -> NonceSize + oc.k
      [] oc.at = 3 -> NonceSize + LenSize + oc.k

HashGot(ct, oc) ==
    CASE oc.at = 0 -> FrameSize(ct)
      [] oc.at = 1 -> NonceSize
      [] oc.at = 2 -> NonceSize + LenSize
      [] oc.at = 3 -> FrameSize(ct)

\* The nonce-reuse guard of writeChunk.
NonceSeenMutant(wr, nonce) == FALSE
NonceSeen(wr, nonce) == nonce \in wr.usedNonces

\* The buffer of the writer after a chunk was sealed.
BufAfterChunkMutant(wr) == wr.buf
BufAfterChunk(wr) == <<>>

\* The error writeChunk returns when its writes to w.out did oc.
ChunkErrMutant(oc) == IF oc.at = 3 THEN oc.err ELSE "nil"
ChunkErr(oc) == oc.err

\* writeChunk with the random draw rnd and the sink outcome oc.  The field
\* sinkErr of the writer records what w.out returned, for the properties.
writeChunk(wr, rnd, oc) ==
    IF rnd = RngFail
    THEN [panic |-> "could not read entropy for encryption", w |-> wr,
          add |-> <<>>, hadd |-> <<>>, err |-> "nil"]
    ELSE IF NonceSeen(wr, rnd)
    THEN [panic |-> "nonce reuse", w |-> wr, add |-> <<>>, hadd |-> <<>>, err |-> "nil"]
    ELSE LET ct == Seal(wr.secretKey, rnd, wr.buf)
             got == SinkGot(ct, oc)
         IN  [panic |-> "",
              w |-> [wr EXCEPT !.usedNonces = @ \cup {rnd}, !.buf = BufAfterChunk(wr),
                               !.sinkErr = oc.err],
              add |-> IF got = 0 THEN <<>> ELSE <<Frame(rnd, ct, got)>>,
              hadd |-> IF wr.out = "multi" THEN <<Frame(rnd, ct, HashGot(ct, oc))>> ELSE <<>>,
              err |-> ChunkErr(oc)]

\* The loop guard of Write: the buffer is full.
BufFullMutant(wr) == Len(wr.buf) = maxChunkSize + 1
BufFull(wr) == Len(wr.buf) = maxChunkSize

\* Write(p): enter the loop.
WriteCall(p) ==
    w' = [w EXCEPT !.pc = "loop", !.p = p, !.i = 0, !.n = 0, !.err = "nil",
                   !.base = Len(sink), !.sinkErr = "nil"]

\* One iteration of `for i, b := range p` with a buffer that is not full.
WriteByte ==
    /\ w.pc = "loop"
    /\ w.i < Len(w.p)
    /\ ~BufFull(w)
    /\ w' = [w EXCEPT !.buf = Append(@, w.p[w.i + 1]), !.i = @ + 1]
    /\ UNCHANGED <<sink, hashIn, r, src, h, enc, dec, fs>>

\* One iteration with a full buffer: writeChunk, then append (or return i, err).
WriteFlush ==
    /\ w.pc = "loop"
    /\ w.i < Len(w.p)
    /\ BufFull(w)
    /\ \E rnd \in Draws(w), oc \in SinkOutcomes(w.out) :
         LET c == writeChunk(w, rnd, oc) IN
         /\ w' = IF c.panic # "" THEN [c.w EXCEPT !.pc = "panic", !.err = c.panic]
                 ELSE IF c.err # "nil" THEN [c.w EXCEPT !.pc = "ret", !.n = w.i, !.err = c.err]
                 ELSE [c.w EXCEPT !.buf = Append(@, w.p[w.i + 1]), !.i = @ + 1]
         /\ sink' = sink \o c.add
         /\ hashIn' = hashIn \o c.hadd
    /\ UNCHANGED <<r, src, h, enc, dec, fs>>

\* After the loop: err := w.writeChunk(); return len(p), err.
WriteFinal ==
    /\ w.pc = "loop"
    /\ w.i = Len(w.p)
    /\ \E rnd \in Draws(w), oc \in SinkOutcomes(w.out) :
         LET c == writeChunk(w, rnd, oc) IN
         /\ w' = IF c.panic # "" THEN [c.w EXCEPT !.pc = "panic", !.err = c.panic]
                 ELSE [c.w EXCEPT !.pc = "ret", !.n = Len(w.p), !.err = c.err]
         /\ sink' = sink \o c.add
         /\ hashIn' = hashIn \o c.hadd
    /\ UNCHANGED <<r, src, h, enc, dec, fs>>

(***************************************************************************)
(* DecReader                                                               *)
(***************************************************************************)
\* NewReader(secretKey, in), with in positioned at frame pos of src.
NewReader(secretKey, pos) ==
    [secretKey |-> secretKey, buf |-> <<>>, index |-> 0, pos |-> pos,
     pc |-> "idle", plen |-> 0, i |-> 0, read |-> 0, err |-> "nil", out |-> <<>>,
     opens |-> 0, ctRead |-> 0, atBoundary |-> FALSE]

NoReader == [NewReader(NoKey, 1) EXCEPT !.pc = "off"]

\* Bytes left in the source after the length field of frame j.
AvailAfterLen(s, j) ==
    (s[j].got - NonceSize - LenSize) + SumGot(SubSeq(s, j + 1, Len(s)))

\* The length check of nextChunk.
TooLargeMutant(chunkSize) == chunkSize > maxChunkSize + Overhead + 1
TooLarge(chunkSize) == chunkSize > maxChunkSize + Overhead

\* aead.Open(nil, nonce, chunkData, nil) on the n bytes read after the length
\* field of frame f: they are a sealed ciphertext only if they are all of f's,
\* unchanged, and key and nonce are the ones it was sealed with.
OpenOK(key, f, n) ==
    /\ Whole(f)
    /\ n = CtLen(f.ct)
    /\ f.ctok
    /\ f.nonce = f.ct.nonce
    /\ key = f.ct.key

ErrEOF == "EOF"
ErrUnexpectedEOF == "unexpected EOF"
ErrTooLarge == "chunk too large"
ErrOpen == "chacha20poly1305: message authentication failed"

\* nextChunk on a reader at frame rd.pos of s.  io.ReadFull and binary.Read
\* return io.EOF when no byte could be read and io.ErrUnexpectedEOF when
\* some but not all could.
nextChunk(rd, s) ==
    LET fail(e, o, c) == [err |-> e, buf |-> rd.buf, pos |-> rd.pos, opened |-> o, ctRead |-> c]
    IN
    IF rd.pos > Len(s) THEN fail(ErrEOF, 0, 0)
    ELSE LET f == s[rd.pos] IN
      IF f.got < NonceSize THEN fail(ErrUnexpectedEOF, 0, 0)
      ELSE IF f.got = NonceSize THEN fail(ErrEOF, 0, 0)
      ELSE IF f.got < NonceSize + LenSize THEN fail(ErrUnexpectedEOF, 0, 0)
      ELSE IF TooLarge(f.len) THEN fail(ErrTooLarge, 0, 0)
      ELSE LET avail == AvailAfterLen(s, rd.pos) IN
        IF f.len > avail
        THEN fail(IF avail = 0 THEN ErrEOF ELSE ErrUnexpectedEOF, 0, avail)
        ELSE IF ~OpenOK(rd.secretKey, f, f.len) THEN fail(ErrOpen, 1, f.len)
        ELSE [err |-> "nil", buf |-> f.ct.pt, pos |-> rd.pos + 1, opened |-> 1, ctRead |-> f.len]

\* Read(p) with len(p) = plen: enter the loop.
ReadCall(plen) ==
    r' = [r EXCEPT !.pc = "loop", !.plen = plen, !.i = 0, !.read = 0,
                   !.err = "nil", !.out = <<>>]

\* The cursor after one byte was copied out of a buffer of length n.
NextIndexMutant(index, n) == index + 1
NextIndex(index, n) == IF index + 1 >= n THEN 0 ELSE index + 1

\* One iteration of `for i := range p`.
ReadIter ==
    /\ r.pc = "loop"
    /\ r.i < r.plen
    /\ LET c  == IF r.index = 0 THEN nextChunk(r, src)
                 ELSE [err |-> "nil", buf |-> r.buf, pos |-> r.pos, opened |-> 0, ctRead |-> 0]
           r1 == [r EXCEPT !.opens = @ + c.opened, !.ctRead = @ + c.ctRead]
       IN
       r' = IF c.err # "nil"
            THEN [r1 EXCEPT !.pc = "ret", !.err = c.err,
                            !.atBoundary = (r.pos > Len(src))]
            ELSE IF r.index >= Len(c.buf)
            THEN [r1 EXCEPT !.pc = "panic", !.err = "index out of range",
                            !.buf = c.buf, !.pos = c.pos]
            ELSE [r1 EXCEPT !.buf = c.buf, !.pos = c.pos,
                            !.out = Append(@, c.buf[r.index + 1]),
                            !.index = NextIndex(r.index, Len(c.buf)),
                            !.read = @ + 1, !.i = @ + 1]
    /\ UNCHANGED <<w, sink, hashIn, src, h, enc, dec, fs>>

\* return read, nil
ReadDone ==
    /\ r.pc = "loop"
    /\ r.i = r.plen
    /\ r' = [r EXCEPT !.pc = "ret", !.err = "nil"]
    /\ UNCHANGED <<w, sink, hashIn, src, h, enc, dec, fs>>

(***************************************************************************)
(* Files, headers and keys                                                 *)
(***************************************************************************)
defaultArgonTime == 4
defaultArgonMemory == 4000000

\* Passphrases the operations are run with.
Passphrases == {1, 2}
\* Values of runtime.NumCPU().
CPUs == {1, 128}
\* Values rand.Read can fill the salt with.
Salts == {1}

\* The buffer of io.Copy is 32 KiB, two chunks.
CopyBufSize == 2 * maxChunkSize
\* Longest plaintext file: two full chunks and one byte.
MaxInput == 2 * maxChunkSize + 1

IOErr == "EIO"
errBadMAC == "authentication failed"
ErrGenKey == "could not generate secret key"

\* binary.Size(fileHeader{}): encoding/binary writes the fields of the struct
\* one after the other, fixed-size and without padding: Salt [32]byte,
\* ArgonTime uint32, ArgonMemory uint32, ArgonLanes uint8, Tag [64]byte.
saltSize == 32
HeaderSizeMutant == saltSize + 4 + 4 + 4 + 64
HeaderSize == saltSize + 4 + 4 + 1 + 64

NoTag == <<>>
NoHeader == [Salt |-> 0, ArgonTime |-> 0, ArgonMemory |-> 0, ArgonLanes |-> 0, Tag |-> NoTag]

\* argon2.IDKey(passphrase, salt, time, memory, threads, keyLen+macLen): the
\* 64 bytes are a term of the arguments; IDKey panics when time or threads
\* is less than 1.
IDKeyPanics(time, threads) == time < 1 \/ threads < 1

\* The message IDKey panics with.
PanicArgon(time, threads) ==
    IF time < 1 THEN "argon2: number of rounds too small"
    ELSE "argon2: parallelism degree too low"

IDKeyMutant(passphrase, salt, time, memory, threads) == <<0, salt, time, memory, threads>>
IDKey(passphrase, salt, time, memory, threads) == <<passphrase, salt, time, memory, threads>>

\* copy(sk[:], skb[:32]); copy(macKey[:], skb[32:])
SecretKeyOf(skb) == <<1>> \o skb
MacKeyOf(skb) == <<2>> \o skb

\* uint8(runtime.NumCPU() * 2)
ArgonLanes(numCPU) == (numCPU * 2) % ByteMod

\* The header generateKey builds (the tag still zero).
generateKeyHeader(salt, numCPU) ==
    [Salt |-> salt, ArgonTime |-> defaultArgonTime, ArgonMemory |-> defaultArgonMemory,
     ArgonLanes |-> ArgonLanes(numCPU), Tag |-> NoTag]

\* hash.Sum(nil) of the keyed BLAKE2b-512 over data.
Mac(macKey, data) == <<macKey, data>>

\* subtle.ConstantTimeCompare(mac[:], header.Tag[:]) != 1
MacMismatchNever(mac, tag) == FALSE
MacMismatchInverted(mac, tag) == mac = tag
MacMismatch(mac, tag) == mac # tag

AbsentC == [exists |-> FALSE, hdr |-> NoHeader, region |-> <<>>]
OldC == [exists |-> TRUE, hdr |-> NoHeader, region |-> <<>>]
AbsentT == [exists |-> FALSE, hdr |-> NoHeader]
AbsentO == [exists |-> FALSE, data |-> <<>>]
OldO == [exists |-> TRUE, data |-> <<0>>]

NoFiles == [plain |-> <<>>, c |-> AbsentC, c0 |-> AbsentC, ctemp |-> AbsentT,
            o |-> AbsentO, o0 |-> AbsentO, otemp |-> AbsentO, tampered |-> FALSE]

\* outOff is the byte offset of the output file, regionOff the offset at which
\* the EncWriter's first byte lands.
NoEncrypt == [pc |-> "off", err |-> "nil", pw |-> 0, numCPU |-> 0, hdr |-> NoHeader,
              sk |-> NoKey, macKey |-> NoKey, inOff |-> 0, nr |-> 0, fault |-> FALSE,
              outOff |-> 0, regionOff |-> 0]

NoDecrypt == [pc |-> "off", err |-> "nil", pw |-> 0, hdr |-> NoHeader,
              sk |-> NoKey, macKey |-> NoKey, mac |-> NoTag, inOff |-> 0,
              ciphertextOffset |-> 0, fault |-> FALSE]

(***************************************************************************)
(* The stream scenario (TestSecureBuffers): Write calls on one EncWriter,  *)
(* then a DecReader over the bytes of the sink.  The scenario is one of    *)
(* two kinds: up to MaxWrites Write calls read back unchanged with either  *)
(* key, or one Write call whose bytes are truncated or changed in one byte *)
(* before they are read back with the writer's key.                        *)
(***************************************************************************)
\* The next n bytes of the caller's data: byte j of the data is j mod 256.
NextData(done, n) == [j \in 1..n |-> (done + j) % ByteMod]

InitStream ==
    /\ \E o \in {"buffer", "writer"} : w = NewWriter(<<0, 1>>, o)
    /\ sink = <<>>
    /\ hashIn = <<>>
    /\ r = NoReader
    /\ src = <<>>
    /\ \E t \in BOOLEAN :
         h = [stage |-> "writing", tamper |-> t, writes |-> 0, wrote |-> <<>>,
              lens |-> <<>>, nonEmpty |-> TRUE, wErr |-> FALSE, readOut |-> <<>>, rErr |-> "nil",
              reads |-> 0, tampered |-> FALSE]
    /\ enc = NoEncrypt
    /\ dec = NoDecrypt
    /\ fs = NoFiles

StreamWrite ==
    /\ h.stage = "writing"
    /\ w.pc = "idle"
    /\ h.writes < (IF h.tamper THEN 1 ELSE MaxWrites)
    /\ \E n \in 0..MaxSlice :
         /\ WriteCall(NextData(Len(h.wrote), n))
         /\ h' = [h EXCEPT !.writes = @ + 1,
                           !.wrote = @ \o NextData(Len(h.wrote), n),
                           !.lens = Append(@, n),
                           !.nonEmpty = @ /\ n > 0]
    /\ UNCHANGED <<sink, hashIn, r, src, enc, dec, fs>>

StreamWriteReturn ==
    /\ h.stage = "writing"
    /\ w.pc = "ret"
    /\ w' = [w EXCEPT !.pc = "idle"]
    /\ h' = [h EXCEPT !.wErr = @ \/ w.err # "nil"]
    /\ UNCHANGED <<sink, hashIn, r, src, enc, dec, fs>>

StreamNewReader ==
    /\ h.stage = "writing"
    /\ w.pc = "idle"
    /\ ~h.wErr
    /\ \E k \in StreamKeys, s \in {sink} \cup (IF h.tamper THEN Tamperings(sink) ELSE {}) :
         /\ h.tamper => (s # sink /\ k = w.secretKey)
         /\ r' = NewReader(k, 1)
         /\ src' = s
         /\ h' = [h EXCEPT !.stage = "reading", !.tampered = (s # sink)]
    /\ UNCHANGED <<w, sink, hashIn, enc, dec, fs>>

StreamRead ==
    /\ h.stage = "reading"
    /\ r.pc = "idle"
    /\ \E n \in 1..MaxReadBuf : ReadCall(n)
    /\ h' = [h EXCEPT !.reads = 1]
    /\ UNCHANGED <<w, sink, hashIn, src, enc, dec, fs>>

\* The caller takes the result; it makes no further Read after an error.
StreamReadReturn ==
    /\ h.stage = "reading"
    /\ r.pc = "ret"
    /\ r' = [r EXCEPT !.pc = IF r.err = "nil" THEN "idle" ELSE "stopped"]
    /\ h' = [h EXCEPT !.readOut = @ \o r.out, !.rErr = r.err]
    /\ UNCHANGED <<w, sink, hashIn, src, enc, dec, fs>>

NextStream ==
    \/ StreamWrite
    \/ WriteByte
    \/ WriteFlush
    \/ WriteFinal
    \/ StreamWriteReturn
    \/ StreamNewReader
    \/ StreamRead
    \/ ReadIter
    \/ ReadDone
    \/ StreamReadReturn

SpecStream == InitStream /\ [][NextStream]_vars

(***************************************************************************)
(* encryptFile                                                             *)
(***************************************************************************)
Min(a, b) == IF a < b THEN a ELSE b

\* defer os.Remove(output.Name())
RemoveTempMutant(t) == t
RemoveTemp(t) == [t EXCEPT !.exists = FALSE]

\* return err, with the deferred removal of the temp file.
EncReturn(err, fault) ==
    /\ enc' = [enc EXCEPT !.pc = "done", !.err = err, !.fault = @ \/ fault]
    /\ fs' = [fs EXCEPT !.ctemp = RemoveTemp(@)]

\* A panic unwinds through the deferred removal.
EncPanic(msg, fault) ==
    /\ enc' = [enc EXCEPT !.pc = "panic", !.err = msg, !.fault = @ \/ fault]
    /\ fs' = [fs EXCEPT !.ctemp = RemoveTemp(@)]

\* A step that either fails with an I/O error or moves on to pc next.
EncStep(pc, next) ==
    /\ enc.pc = pc
    /\ \/ EncReturn(IOErr, TRUE)
       \/ /\ enc' = [enc EXCEPT !.pc = next]
          /\ UNCHANGED fs
    /\ UNCHANGED <<w, sink, hashIn, r, src, h, dec>>

\* output, err := os.Create(finalOutput + ".temp")
EncCreate ==
    /\ enc.pc = "create"
    /\ \/ /\ enc' = [enc EXCEPT !.pc = "done", !.err = IOErr, !.fault = TRUE]
          /\ UNCHANGED <<fs, sink>>
       \/ /\ enc' = [enc EXCEPT !.pc = "seek"]
          /\ fs' = [fs EXCEPT !.ctemp = [exists |-> TRUE, hdr |-> NoHeader]]
          /\ sink' = <<>>
    /\ UNCHANGED <<w, hashIn, r, src, h, dec>>

\* input.Seek(0, 0)
EncSeek ==
    /\ enc.pc = "seek"
    /\ \/ EncReturn(IOErr, TRUE)
       \/ /\ enc' = [enc EXCEPT !.pc = "genkey", !.inOff = 0]
          /\ UNCHANGED fs
    /\ UNCHANGED <<w, sink, hashIn, r, src, h, dec>>

\* skb, header, err := generateKey(passphrase)
EncGenerateKey ==
    /\ enc.pc = "genkey"
    /\ \/ EncReturn(ErrGenKey, TRUE)
       \/ \E salt \in Salts :
            LET header == generateKeyHeader(salt, enc.numCPU)
                skb == IDKey(enc.pw, header.Salt, header.ArgonTime,
                             header.ArgonMemory, header.ArgonLanes)
            IN  IF IDKeyPanics(header.ArgonTime, header.ArgonLanes)
                THEN EncPanic(PanicArgon(header.ArgonTime, header.ArgonLanes), FALSE)
                ELSE /\ enc' = [enc EXCEPT !.pc = "hdr1", !.hdr = header,
                                           !.sk = SecretKeyOf(skb), !.macKey = MacKeyOf(skb)]
                     /\ UNCHANGED fs
    /\ UNCHANGED <<w, sink, hashIn, r, src, h, dec>>

\* binary.Write(output, binary.LittleEndian, header), then
\* NewWriter(sk, io.MultiWriter(hash, output))
EncWriteHeader ==
    /\ enc.pc = "hdr1"
    /\ \/ /\ EncReturn(IOErr, TRUE)
          /\ UNCHANGED <<w, hashIn>>
       \/ /\ enc' = [enc EXCEPT !.pc = "copy", !.outOff = @ + HeaderSize,
                                 !.regionOff = enc.outOff + HeaderSize]
          /\ fs' = [fs EXCEPT !.ctemp.hdr = enc.hdr]
          /\ w' = NewWriter(enc.sk, "multi")
          /\ hashIn' = <<>>
    /\ UNCHANGED <<sink, r, src, h, dec>>

\* io.Copy(encWriter, input): one Read of the input, of up to CopyBufSize
\* bytes; Write is called with what was read, if anything.
EncCopyRead ==
    /\ enc.pc = "copy"
    /\ w.pc = "idle"
    /\ LET left == Len(fs.plain) - enc.inOff IN
       \/ /\ EncReturn(IOErr, TRUE)
          /\ UNCHANGED w
       \/ /\ left = 0
          /\ enc' = [enc EXCEPT !.pc = "mac"]
          /\ UNCHANGED <<fs, w>>
       \/ \E n \in 1..Min(CopyBufSize, left) :
            /\ WriteCall(SubSeq(fs.plain, enc.inOff + 1, enc.inOff + n))
            /\ enc' = [enc EXCEPT !.nr = n]
            /\ UNCHANGED fs
    /\ UNCHANGED <<sink, hashIn, r, src, h, dec>>

\* io.Copy takes the result of Write.
EncCopyWritten ==
    /\ enc.pc = "copy"
    /\ w.pc = "ret"
    /\ IF w.err # "nil" THEN EncReturn(w.err, TRUE)
       ELSE IF w.n # enc.nr THEN EncReturn("short write", FALSE)
       ELSE /\ enc' = [enc EXCEPT !.inOff = @ + enc.nr]
            /\ UNCHANGED fs
    /\ w' = [w EXCEPT !.pc = "idle"]
    /\ UNCHANGED <<sink, hashIn, r, src, h, dec>>

\* writeChunk panicked inside io.Copy.
EncCopyPanic ==
    /\ enc.pc = "copy"
    /\ w.pc = "panic"
    /\ EncPanic(w.err, TRUE)
    /\ UNCHANGED <<w, sink, hashIn, r, src, h, dec>>

\* copy(mac[:], hash.Sum(nil)); header.Tag = mac
EncMac ==
    /\ enc.pc = "mac"
    /\ enc' = [enc EXCEPT !.pc = "seek2", !.hdr.Tag = Mac(enc.macKey, hashIn)]
    /\ UNCHANGED <<w, sink, hashIn, r, src, h, dec, fs>>

\* output.Seek(0, 0)
EncSeekOutput ==
    /\ enc.pc = "seek2"
    /\ \/ EncReturn(IOErr, TRUE)
       \/ /\ enc' = [enc EXCEPT !.pc = "hdr2", !.outOff = 0]
          /\ UNCHANGED fs
    /\ UNCHANGED <<w, sink, hashIn, r, src, h, dec>>

\* binary.Write(output, binary.LittleEndian, header), over the first one
EncRewriteHeader ==
    /\ enc.pc = "hdr2"
    /\ \/ EncReturn(IOErr, TRUE)
       \/ /\ enc' = [enc EXCEPT !.pc = "sync", !.outOff = @ + HeaderSize]
          /\ fs' = [fs EXCEPT !.ctemp.hdr = enc.hdr]
    /\ UNCHANGED <<w, sink, hashIn, r, src, h, dec>>

\* output.Sync()
EncSync == EncStep("sync", "close")

\* output.Close()
EncClose == EncStep("close", "rename")

\* os.Rename(output.Name(), finalOutput); return err
EncRename ==
    /\ enc.pc = "rename"
    /\ \/ EncReturn(IOErr, TRUE)
       \/ /\ enc' = [enc EXCEPT !.pc = "done", !.err = "nil"]
          /\ fs' = [fs EXCEPT
                     !.c = [exists |-> TRUE, hdr |-> fs.ctemp.hdr, region |-> sink],
                     !.ctemp = RemoveTemp([fs.ctemp EXCEPT !.exists = FALSE])]
    /\ UNCHANGED <<w, sink, hashIn, r, src, h, dec>>

(***************************************************************************)
(* decryptFile, run on the file encryptFile produced                       *)
(***************************************************************************)
DecReturn(err, fault) ==
    /\ dec' = [dec EXCEPT !.pc = "done", !.err = err, !.fault = @ \/ fault]
    /\ fs' = [fs EXCEPT !.otemp = RemoveTemp(@)]

DecPanic(msg) ==
    /\ dec' = [dec EXCEPT !.pc = "panic", !.err = msg]
    /\ fs' = [fs EXCEPT !.otemp = RemoveTemp(@)]

\* The ciphertext file is changed after it was written: cut short, or one
\* byte of its ciphertext region changed.
Tamper ==
    /\ enc.pc = "done"
    /\ enc.err = "nil"
    /\ dec.pc = "off"
    /\ ~fs.tampered
    /\ \E t \in Tamperings(fs.c.region) :
         fs' = [fs EXCEPT !.c.region = t, !.tampered = TRUE]
    /\ UNCHANGED <<w, sink, hashIn, r, src, h, enc, dec>>

\* decryptFile(passphrase, input, finalOutput) is called.
DecCall ==
    /\ enc.pc = "done"
    /\ enc.err = "nil"
    /\ dec.pc = "off"
    /\ \E pw \in Passphrases : dec' = [dec EXCEPT !.pc = "create", !.pw = pw]
    /\ UNCHANGED <<w, sink, hashIn, r, src, h, enc, fs>>

\* output, err := os.Create(finalOutput + ".temp")
DecCreate ==
    /\ dec.pc = "create"
    /\ \/ /\ dec' = [dec EXCEPT !.pc = "done", !.err = IOErr, !.fault = TRUE]
          /\ UNCHANGED fs
       \/ /\ dec' = [dec EXCEPT !.pc = "seek"]
          /\ fs' = [fs EXCEPT !.otemp = [exists |-> TRUE, data |-> <<>>]]
    /\ UNCHANGED <<w, sink, hashIn, r, src, h, enc>>

\* input.Seek(0, 0)
DecSeek ==
    /\ dec.pc = "seek"
    /\ \/ DecReturn(IOErr, TRUE)
       \/ /\ dec' = [dec EXCEPT !.pc = "header", !.inOff = 0]
          /\ UNCHANGED fs
    /\ UNCHANGED <<w, sink, hashIn, r, src, h, enc>>

\* binary.Read(input, binary.LittleEndian, &header) reads HeaderSize bytes.
DecReadHeader ==
    /\ dec.pc = "header"
    /\ \/ DecReturn(IOErr, TRUE)
       \/ /\ dec' = [dec EXCEPT !.pc = "tell", !.hdr = fs.c.hdr, !.inOff = @ + HeaderSize]
          /\ UNCHANGED fs
    /\ UNCHANGED <<w, sink, hashIn, r, src, h, enc>>

\* ciphertextOffset, err := input.Seek(0, 1)
DecTell ==
    /\ dec.pc = "tell"
    /\ \/ DecReturn(IOErr, TRUE)
       \/ /\ dec' = [dec EXCEPT !.pc = "derive", !.ciphertextOffset = dec.inOff]
          /\ UNCHANGED fs
    /\ UNCHANGED <<w, sink, hashIn, r, src, h, enc>>

\* skb := argon2.IDKey(passphrase, header.Salt[:], ...)
DecDeriveKey ==
    /\ dec.pc = "derive"
    /\ LET skb == IDKey(dec.pw, dec.hdr.Salt, dec.hdr.ArgonTime,
                        dec.hdr.ArgonMemory, dec.hdr.ArgonLanes)
       IN  IF IDKeyPanics(dec.hdr.ArgonTime, dec.hdr.ArgonLanes)
           THEN DecPanic(PanicArgon(dec.hdr.ArgonTime, dec.hdr.ArgonLanes))
           ELSE /\ dec' = [dec EXCEPT !.pc = "hash", !.sk = SecretKeyOf(skb),
                                      !.macKey = MacKeyOf(skb)]
                /\ UNCHANGED fs
    /\ UNCHANGED <<w, sink, hashIn, r, src, h, enc>>

\* The frame of the region that starts at byte offset off of the file (one
\* past the last frame for the offset of EOF).
FrameAt(region, off) ==
    CHOOSE j \in 1..(Len(region) + 1) : HeaderSize + SumGot(SubSeq(region, 1, j - 1)) = off

\* The bytes io.Copy(hash, input) reads: from the offset of the input to EOF.
HashedBytes(region, off) == SubSeq(region, FrameAt(region, off), Len(region))

\* io.Copy(hash, input); copy(mac[:], hash.Sum(nil))
DecHash ==
    /\ dec.pc = "hash"
    /\ \/ DecReturn(IOErr, TRUE)
       \/ /\ dec' = [dec EXCEPT !.pc = "compare",
                                 !.mac = Mac(dec.macKey, HashedBytes(fs.c.region, dec.inOff)),
                                 !.inOff = HeaderSize + SumGot(fs.c.region)]
          /\ UNCHANGED fs
    /\ UNCHANGED <<w, sink, hashIn, r, src, h, enc>>

\* if subtle.ConstantTimeCompare(mac[:], header.Tag[:]) != 1 { return errBadMAC }
DecCompare ==
    /\ dec.pc = "compare"
    /\ IF MacMismatch(dec.mac, dec.hdr.Tag)
       THEN DecReturn(errBadMAC, FALSE)
       ELSE /\ dec' = [dec EXCEPT !.pc = "seekback"]
            /\ UNCHANGED fs
    /\ UNCHANGED <<w, sink, hashIn, r, src, h, enc>>

\* The offset the input is at after input.Seek(ciphertextOffset, 0).
SeekBack(df) == df.ciphertextOffset

\* input.Seek(ciphertextOffset, 0); inputReader := NewReader(sk, input)
DecSeekBack ==
    /\ dec.pc = "seekback"
    /\ \/ /\ DecReturn(IOErr, TRUE)
          /\ UNCHANGED <<r, src>>
       \/ /\ dec' = [dec EXCEPT !.pc = "copy", !.inOff = SeekBack(dec)]
          /\ r' = NewReader(dec.sk, FrameAt(fs.c.region, SeekBack(dec)))
          /\ src' = fs.c.region
          /\ UNCHANGED fs
    /\ UNCHANGED <<w, sink, hashIn, h, enc>>

\* io.Copy(output, inputReader): one Read with a buffer of CopyBufSize bytes.
DecCopyRead ==
    /\ dec.pc = "copy"
    /\ r.pc = "idle"
    /\ ReadCall(CopyBufSize)
    /\ UNCHANGED <<w, sink, hashIn, src, h, enc, dec, fs>>

\* io.Copy writes what Read returned to the temp file and then looks at the
\* error of Read: io.EOF ends the copy, any other error is returned.  A Read
\* that panicked unwinds decryptFile.
DecCopyWrite ==
    /\ dec.pc = "copy"
    /\ r.pc \in {"ret", "panic"}
    /\ \/ /\ r.pc = "panic"
          /\ DecPanic(r.err)
          /\ UNCHANGED r
       \/ /\ r.pc = "ret"
          /\ r.read > 0
          /\ DecReturn(IOErr, TRUE)
          /\ r' = [r EXCEPT !.pc = "stopped"]
       \/ /\ r.pc = "ret"
          /\ IF r.err = "nil" \/ r.err = ErrEOF
             THEN /\ dec' = [dec EXCEPT !.pc = IF r.err = ErrEOF THEN "sync" ELSE "copy"]
                  /\ fs' = [fs EXCEPT !.otemp.data = @ \o r.out]
             ELSE DecReturn(r.err, FALSE)
          /\ r' = [r EXCEPT !.pc = IF r.err = "nil" THEN "idle" ELSE "stopped"]
    /\ UNCHANGED <<w, sink, hashIn, src, h, enc>>

\* output.Sync()
DecSync ==
    /\ dec.pc = "sync"
    /\ \/ DecReturn(IOErr, TRUE)
       \/ /\ dec' = [dec EXCEPT !.pc = "close"]
          /\ UNCHANGED fs
    /\ UNCHANGED <<w, sink, hashIn, r, src, h, enc>>

\* output.Close()
DecClose ==
    /\ dec.pc = "close"
    /\ \/ DecReturn(IOErr, TRUE)
       \/ /\ dec' = [dec EXCEPT !.pc = "rename"]
          /\ UNCHANGED fs
    /\ UNCHANGED <<w, sink, hashIn, r, src, h, enc>>

\* os.Rename(output.Name(), finalOutput); return err
DecRename ==
    /\ dec.pc = "rename"
    /\ \/ DecReturn(IOErr, TRUE)
       \/ /\ dec' = [dec EXCEPT !.pc = "done", !.err = "nil"]
          /\ fs' = [fs EXCEPT
                     !.o = [exists |-> TRUE, data |-> fs.otemp.data],
                     !.otemp = RemoveTemp([fs.otemp EXCEPT !.exists = FALSE])]
    /\ UNCHANGED <<w, sink, hashIn, r, src, h, enc>>

(***************************************************************************)
(* The file scenario (TestFileEncryptDecrypt): encryptFile on a plaintext  *)
(* file, then decryptFile on its output, possibly changed in between.      *)
(* The two output paths either both hold an older file or are both absent, *)
(* and no temp file exists at the start.                                   *)
(***************************************************************************)
NoScenario ==
    [stage |-> "off", tamper |-> FALSE, writes |-> 0, wrote |-> <<>>,
     lens |-> <<>>, nonEmpty |-> TRUE, wErr |-> FALSE, readOut |-> <<>>, rErr |-> "nil",
     reads |-> 0, tampered |-> FALSE]

Init ==
    /\ w = NoWriter
    /\ sink = <<>>
    /\ hashIn = <<>>
    /\ r = NoReader
    /\ src = <<>>
    /\ h = NoScenario
    /\ \E pw \in Passphrases, n \in CPUs :
         enc = [NoEncrypt EXCEPT !.pc = "create", !.pw = pw, !.numCPU = n]
    /\ dec = NoDecrypt
    /\ \E len \in 0..MaxInput, old \in BOOLEAN :
         LET c0 == IF old THEN OldC ELSE AbsentC
             o0 == IF old THEN OldO ELSE AbsentO
         IN  fs = [NoFiles EXCEPT !.plain = NextData(0, len), !.c = c0, !.c0 = c0,
                                  !.o = o0, !.o0 = o0]

Next ==
    \/ EncCreate
    \/ EncSeek
    \/ EncGenerateKey
    \/ EncWriteHeader
    \/ EncCopyRead
    \/ WriteByte
    \/ WriteFlush
    \/ WriteFinal
    \/ EncCopyWritten
    \/ EncCopyPanic
    \/ EncMac
    \/ EncSeekOutput
    \/ EncRewriteHeader
    \/ EncSync
    \/ EncClose
    \/ EncRename
    \/ Tamper
    \/ DecCall
    \/ DecCreate
    \/ DecSeek
    \/ DecReadHeader
    \/ DecTell
    \/ DecDeriveKey
    \/ DecHash
    \/ DecCompare
    \/ DecSeekBack
    \/ DecCopyRead
    \/ ReadIter
    \/ ReadDone
    \/ DecCopyWrite
    \/ DecSync
    \/ DecClose
    \/ DecRename

Spec == Init /\ [][Next]_vars

(***************************************************************************)
(* The file scenario with a header changed on disk: decryptFile reads      *)
(* whatever Argon2 parameters the 9 bytes after the salt hold.             *)
(***************************************************************************)
\* The header of the untouched ciphertext file gets an ArgonTime or an
\* ArgonLanes of 0.
TamperHeader ==
    /\ enc.pc = "done"
    /\ enc.err = "nil"
    /\ dec.pc = "off"
    /\ ~fs.tampered
    /\ fs.c.hdr = enc.hdr
    /\ \/ fs' = [fs EXCEPT !.c.hdr.ArgonTime = 0, !.tampered = TRUE]
       \/ fs' = [fs EXCEPT !.c.hdr.ArgonLanes = 0, !.tampered = TRUE]
    /\ UNCHANGED <<w, sink, hashIn, r, src, h, enc, dec>>

NextHeader ==
    \/ Next
    \/ TamperHeader

SpecHeader == Init /\ [][NextHeader]_vars

(***************************************************************************)
(* Properties of the file operations (checked under Spec)                  *)
(***************************************************************************)
EncEnded == enc.pc \in {"done", "panic"}
DecEnded == dec.pc \in {"done", "panic"}
EncFailed == enc.pc = "panic" \/ (enc.pc = "done" /\ enc.err # "nil")
DecFailed == dec.pc = "panic" \/ (dec.pc = "done" /\ dec.err # "nil")

\* decryptFile, run without I/O errors on the unchanged output of
\* encryptFile with the same passphrase, returns nil and leaves the
\* plaintext at its output path.
RoundTripOnceEncrypted ==
    (DecEnded /\ dec.pw = enc.pw /\ ~fs.tampered /\ ~dec.fault)
        => (dec.pc = "done" /\ dec.err = "nil" /\ fs.o.exists /\ fs.o.data = fs.plain)

\* C1: file round trip.  For every plaintext and passphrase, encryptFile and
\* then decryptFile (no I/O error, no failure of the random source) both
\* return no error and the output file holds exactly the plaintext.
FileRoundTrip ==
    /\ (EncEnded /\ ~enc.fault) => (enc.pc = "done" /\ enc.err = "nil")
    /\ RoundTripOnceEncrypted

\* The decrypt pass has begun: a reader exists, a chunk was opened, plaintext
\* was written to the temp file, or the output path was changed.
DecryptStarted ==
    \/ r.pc # "off"
    \/ r.opens > 0
    \/ fs.otemp.data # <<>>
    \/ dec.pc \in {"copy", "sync", "close", "rename"}
    \/ fs.o # fs.o0

\* The MAC over the whole ciphertext region was computed and equals the tag.
Authenticated ==
    /\ dec.mac = Mac(dec.macKey, fs.c.region)
    /\ dec.mac = dec.hdr.Tag

\* C2: authenticate before decrypt.  decryptFile opens no chunk and writes no
\* plaintext before the MAC over the whole ciphertext region was computed
\* and found equal to the header's tag; after a mismatch the decrypt pass
\* never starts.
AuthBeforeDecrypt == DecryptStarted => Authenticated

\* decryptFile is copying: it has opened a chunk and written plaintext.
AuthBeforeDecryptWitness ==
    /\ dec.pc = "copy"
    /\ r.opens > 1
    /\ fs.otemp.exists
    /\ fs.otemp.data # <<>>

\* C3: tamper detection.  decryptFile with the right passphrase returns
\* errBadMAC on a file whose ciphertext region was truncated or changed in
\* one byte after encryptFile wrote it.
TamperDetected ==
    (DecEnded /\ fs.tampered /\ dec.pw = enc.pw /\ ~dec.fault)
        => (dec.pc = "done" /\ dec.err = errBadMAC)

\* The file lost exactly its last frame, a full chunk, and decryptFile
\* returned errBadMAC.
TamperDetectedWitness ==
    /\ dec.pc = "done"
    /\ dec.err = errBadMAC
    /\ dec.pw = enc.pw
    /\ Len(sink) >= 2
    /\ Len(sink[Len(sink)].ct.pt) = maxChunkSize
    /\ fs.c.region = SubSeq(sink, 1, Len(sink) - 1)

\* C4: wrong passphrase.  decryptFile with a passphrase other than the one
\* the file was encrypted with returns errBadMAC (an I/O error if one
\* occurred first), never creates or changes its output path, and leaves no
\* temp file behind.
WrongPassphrase ==
    (dec.pc # "off" /\ dec.pw # enc.pw) =>
        /\ fs.o = fs.o0
        /\ DecEnded => /\ dec.pc = "done"
                       /\ dec.err # "nil"
                       /\ ~dec.fault => dec.err = errBadMAC
                       /\ ~fs.otemp.exists

\* An unchanged file of several chunks was refused under the other
\* passphrase and the older file at the output path is still there.
WrongPassphraseWitness ==
    /\ dec.pc = "done"
    /\ dec.pw # enc.pw
    /\ dec.err = errBadMAC
    /\ ~fs.tampered
    /\ Len(fs.c.region) >= 2
    /\ fs.o0.exists
    /\ fs.o = fs.o0

\* What holds of the files in every state.
AtomicState ==
    /\ EncEnded => ~fs.ctemp.exists
    /\ DecEnded => ~fs.otemp.exists
    /\ (~EncEnded \/ EncFailed) => fs.c = fs.c0
    /\ (~DecEnded \/ DecFailed) => fs.o = fs.o0
    /\ (enc.pc = "done" /\ enc.fault) => enc.err # "nil"
    /\ (dec.pc = "done" /\ dec.fault) => dec.err # "nil"
    /\ (enc.pc = "done" /\ enc.err = "nil" /\ ~fs.tampered) =>
          /\ fs.c = [exists |-> TRUE, hdr |-> enc.hdr, region |-> sink]
          /\ enc.hdr.Tag = Mac(enc.macKey, sink)
          /\ Plain(sink) = fs.plain

\* The only steps that change an output path are the two renames, taken
\* from the rename step with no earlier failure, and they move the temp file.
AtomicStep ==
    /\ (fs'.c # fs.c /\ fs'.tampered = fs.tampered) =>
          /\ enc.pc = "rename" /\ enc'.pc = "done" /\ enc'.err = "nil" /\ ~enc.fault
          /\ fs.ctemp.exists /\ ~fs'.ctemp.exists
          /\ fs'.c = [exists |-> TRUE, hdr |-> fs.ctemp.hdr, region |-> sink]
    /\ fs'.o # fs.o =>
          /\ dec.pc = "rename" /\ dec'.pc = "done" /\ dec'.err = "nil" /\ ~dec.fault
          /\ fs.otemp.exists /\ ~fs'.otemp.exists
          /\ fs'.o = [exists |-> TRUE, data |-> fs.otemp.data]

IsPrefix(a, b) == Len(a) <= Len(b) /\ a = SubSeq(b, 1, Len(a))

\* The plaintext bytes the reader has copied into its callers' buffers.
Delivered == IF r.pc \in {"loop", "ret", "panic"} THEN h.readOut \o r.out ELSE h.readOut

\* The Write calls were given non-empty slices, all succeeded, and the sink's
\* bytes are read unchanged with the writer's key.
SameKeyReadBack ==
    /\ h.stage = "reading"
    /\ ~h.tamper
    /\ h.nonEmpty
    /\ r.secretKey = w.secretKey

\* C6: stream round trip and ordering.  Reading the sink's bytes with the
\* writer's key delivers, over any sequence of Read calls, the written bytes
\* P1 || ... || Pk in order and nothing else; the only error a Read reports
\* is end-of-stream, and only once every byte was delivered.
StreamRoundTrip ==
    SameKeyReadBack =>
        /\ IsPrefix(Delivered, h.wrote)
        /\ r.pc # "panic"
        /\ (r.pc \in {"ret", "stopped"} /\ r.err # "nil")
              => (r.err = ErrEOF /\ Delivered = h.wrote)
        /\ (r.pc = "ret" /\ r.err = "nil") => r.read = r.plen

\* Two Write calls were read back and a Read call stopped inside the third
\* or a later chunk.
StreamRoundTripWitness ==
    /\ SameKeyReadBack
    /\ h.writes = MaxWrites
    /\ r.pc = "idle"
    /\ r.index > 0
    /\ r.pos > 3
    /\ Len(h.readOut) > maxChunkSize

NoncesDistinct ==
    \A a \in 1..Len(sink) : \A b \in 1..Len(sink) : a # b => sink[a].nonce # sink[b].nonce

\* A step in which the writer aborts on a repeated nonce writes nothing.
NonceAbortWritesNothing ==
    (w.pc # "panic" /\ w'.pc = "panic" /\ w'.err = "nonce reuse") => sink' = sink

\* C7: nonce uniqueness.  No two frames in the sink of one EncWriter carry
\* the same nonce, and a draw of a nonce used before aborts the writer
\* without a byte reaching the sink.
NonceUniqueness == [](NoncesDistinct) /\ [][NonceAbortWritesNothing]_vars

\* The writer aborted on a repeated nonce after it had written frames.
NonceUniquenessWitness ==
    /\ w.pc = "panic"
    /\ w.err = "nonce reuse"
    /\ Len(sink) >= 2

\* Plaintext bytes of the source that the reader has not yet delivered.
Remaining == Len(Plain(src)) - Len(h.readOut)

\* C8: Read fills p.  A Read call with at least len(p) plaintext bytes left
\* in the stream returns (len(p), nil); it returns fewer than len(p) bytes
\* only with an error; that error is end-of-stream exactly when the source
\* was exhausted at a chunk boundary.
ReadFillsBuffer ==
    /\ (r.pc = "ret" /\ r.err = "nil") => r.read = r.plen
    /\ (r.pc = "ret" /\ r.read < r.plen) => r.err # "nil"
    /\ (h.stage = "reading" /\ ~h.tamper /\ r.secretKey = w.secretKey
          /\ r.pc \in {"ret", "panic"} /\ Remaining >= r.plen)
         => (r.pc = "ret" /\ r.err = "nil" /\ r.read = r.plen)
    /\ (r.pc = "ret" /\ r.err # "nil") => ((r.err = ErrEOF) <=> r.atBoundary)

\* C9: memory bound.  The writer's plaintext buffer and the reader's
\* decrypted-chunk buffer never hold more than 3 * maxChunkSize bytes.
MemoryBound ==
    /\ Len(w.buf) <= 3 * maxChunkSize
    /\ Len(r.buf) <= 3 * maxChunkSize

\* More than 3 * maxChunkSize bytes went through the writer and the reader
\* holds a full chunk of them.
MemoryBoundWitness ==
    /\ Len(h.wrote) > 3 * maxChunkSize
    /\ r.pos > 3
    /\ Len(r.buf) = maxChunkSize

\* The frames the current Write call has put into the sink.
EmittedWhole == \A j \in (w.base + 1)..Len(sink) : Whole(sink[j])

\* C10: sink errors in Write.  When a write to the sink fails, Write returns
\* that error and the number of bytes of p it had taken (at most len(p));
\* it returns (len(p), nil) only if every frame it emitted is whole.
SinkErrorReturned ==
    w.pc = "ret" =>
        /\ w.sinkErr # "nil" => (w.err = w.sinkErr /\ w.n = w.i)
        /\ 0 <= w.n /\ w.n <= Len(w.p)
        /\ (w.err = "nil" /\ w.n = Len(w.p)) => (w.sinkErr = "nil" /\ EmittedWhole)
        /\ w.err = "nil" => w.n = Len(w.p)

\* A Write call returned a sink error from inside its loop.
SinkErrorReturnedWitness ==
    /\ w.pc = "ret"
    /\ w.sinkErr # "nil"
    /\ 0 < w.n
    /\ w.n < Len(w.p)

\* ceil(n / m)
CeilDiv(n, m) == (n + m - 1) \div m

\* The frames the current Write call has put into the sink, in order.
Emitted == SubSeq(sink, w.base + 1, Len(sink))

\* C11: chunk boundaries of one Write.  A Write(p) with n = len(p) >= 1 that
\* returns without error has emitted exactly ceil(n / maxChunkSize) whole
\* frames; frame j carries bytes (j-1)*maxChunkSize+1 .. min(j*maxChunkSize, n)
\* of p, so every frame but the last carries maxChunkSize bytes and the last
\* the rest, and each length field is the plaintext length plus 16.
ChunkBoundaries ==
    (w.pc = "ret" /\ w.err = "nil" /\ Len(w.p) >= 1) =>
        LET n == Len(w.p)
            k == CeilDiv(n, maxChunkSize)
        IN  /\ Len(Emitted) = k
            /\ \A j \in 1..Len(Emitted) :
                  /\ Whole(Emitted[j])
                  /\ Emitted[j].ct.pt =
                        SubSeq(w.p, (j - 1) * maxChunkSize + 1, Min(j * maxChunkSize, n))
                  /\ Emitted[j].len = Len(Emitted[j].ct.pt) + Overhead
                  /\ j < k => Len(Emitted[j].ct.pt) = maxChunkSize
            /\ Len(Emitted[k].ct.pt) = n - maxChunkSize * (k - 1)

\* A later Write of maxChunkSize + 1 bytes returned after two frames, of
\* maxChunkSize bytes and of one byte.
ChunkBoundariesWitness ==
    /\ w.pc = "ret"
    /\ w.err = "nil"
    /\ w.base > 0
    /\ Len(w.p) = maxChunkSize + 1
    /\ Len(Emitted) = 2
    /\ Emitted[1].len = maxChunkSize + Overhead
    /\ Len(Emitted[2].ct.pt) = 1

\* C12: frame length range.  After any sequence of Write calls, with slices
\* of any length, every frame in the sink has a length field between 1 + 16
\* and maxChunkSize + 16.
FrameLengthRange ==
    \A j \in 1..Len(sink) :
        /\ sink[j].len >= 1 + Overhead
        /\ sink[j].len <= maxChunkSize + Overhead

RECURSIVE SumLens(_)
SumLens(ls) == IF ls = <<>> THEN 0 ELSE Head(ls) + SumLens(Tail(ls))

\* The number of frames ceil(n1/maxChunkSize) + ... + ceil(nk/maxChunkSize).
RECURSIVE SumFrames(_)
SumFrames(ls) ==
    IF ls = <<>> THEN 0 ELSE CeilDiv(Head(ls), maxChunkSize) + SumFrames(Tail(ls))

\* C13: per-write final chunk.  When a Write call has returned without error
\* the writer's buffer is empty; after Write calls of n1..nk >= 1 bytes the
\* sink holds exactly the sum of ceil(ni / maxChunkSize) frames, and the
\* frames of the first i calls carry exactly the bytes of the first i calls,
\* so no frame holds bytes of two calls.
PerWriteFinalChunk ==
    /\ (w.pc = "ret" /\ w.err = "nil") => w.buf = <<>>
    /\ (w.pc = "idle" /\ ~h.wErr /\ h.nonEmpty) =>
          /\ w.buf = <<>>
          /\ Len(sink) = SumFrames(h.lens)
          /\ \A i \in 1..Len(h.lens) :
                Plain(SubSeq(sink, 1, SumFrames(SubSeq(h.lens, 1, i))))
                    = SubSeq(h.wrote, 1, SumLens(SubSeq(h.lens, 1, i)))

\* Two Write calls, of maxChunkSize + 1 bytes and of one byte, left three
\* frames.
PerWriteFinalChunkWitness ==
    /\ w.pc = "idle"
    /\ ~h.wErr
    /\ Len(h.lens) >= 2
    /\ h.lens[1] = maxChunkSize + 1
    /\ h.lens[2] = 1
    /\ Len(sink) = 3

\* A Read call has returned an error, to io.Copy or to the scenario.
ReadFailed == r.pc \in {"ret", "stopped"} /\ r.err # "nil"

\* C14: premature EOF in the decryptor.  Read reports end-of-stream only
\* when the source ended before the first byte of a nonce; when the source
\* ends anywhere inside a frame, Read reports an error other than
\* end-of-stream.
PrematureEOF ==
    ReadFailed =>
        /\ r.err = ErrEOF => r.pos > Len(src)
        /\ (r.pos = Len(src) /\ ~Whole(src[r.pos]) /\ ~TooLarge(src[r.pos].len))
              => r.err = ErrUnexpectedEOF

RECURSIVE SumLen(_)
SumLen(s) == IF s = <<>> THEN 0 ELSE Head(s).len + SumLen(Tail(s))

\* The frames of the source before the one the reader is at.
Before == SubSeq(src, 1, r.pos - 1)

\* C15: oversize frames are rejected.  A frame whose length field exceeds
\* maxChunkSize + 16 makes Read return the chunk-too-large error with no
\* byte of that frame's ciphertext read, nothing of it buffered or opened
\* and exactly the plaintext of the earlier frames delivered; a frame whose
\* length field is at most maxChunkSize + 16 never gets that error.
OversizeRejected ==
    /\ (ReadFailed /\ r.err = ErrTooLarge) =>
          /\ r.pos <= Len(src)
          /\ src[r.pos].len > maxChunkSize + Overhead
          /\ r.ctRead = SumLen(Before)
          /\ r.opens = Len(Before)
          /\ r.buf = (IF Before = <<>> THEN <<>> ELSE Before[Len(Before)].ct.pt)
          /\ Delivered = Plain(Before)
    /\ (ReadFailed /\ r.pos <= Len(src) /\ src[r.pos].got >= NonceSize + LenSize) =>
          ((r.err = ErrTooLarge) <=> (src[r.pos].len > maxChunkSize + Overhead))

\* The second frame's length field was changed to an oversize value; the
\* Read call that delivered the first frame's plaintext returned the error.
OversizeRejectedWitness ==
    /\ r.pc = "ret"
    /\ r.err = ErrTooLarge
    /\ r.pos = 2
    /\ r.read = maxChunkSize
    /\ src[2].len > maxChunkSize + Overhead

\* C16: the reader's cursor stays in bounds.  On every frame sequence an
\* EncWriter can produce, the zero-plaintext frame of an empty Write
\* included, Read returns a (count, error) result and never indexes its
\* chunk buffer out of range.
CursorInBounds == r.pc # "panic"

(***************************************************************************)
(* Further properties of the file operations                               *)
(***************************************************************************)
\* C17: at least one chunk.  Every successful encryptFile, of an empty input
\* included, leaves a ciphertext region of at least one frame.
AtLeastOneChunk ==
    (enc.pc = "done" /\ enc.err = "nil") => (Len(sink) >= 1 /\ Whole(sink[1]))

\* generateKey has built its header and called the KDF.
GenerateKeyRan == enc.hdr # NoHeader \/ enc.pc = "panic"

\* C18: Argon2 lanes default.  For every CPU count n >= 1 the lanes value
\* generateKey stores and passes to the KDF is 2*n clamped to 1..255.
ArgonLanesClamped ==
    (GenerateKeyRan /\ enc.numCPU >= 1) =>
        /\ ArgonLanes(enc.numCPU) >= 1
        /\ ArgonLanes(enc.numCPU) <= 255
        /\ ArgonLanes(enc.numCPU) = Min(2 * enc.numCPU, 255)

\* The header is H bytes in both operations: encryptFile's writer starts at
\* offset H, its header rewrite ends at H, and decryptFile takes offset H as
\* the start of the ciphertext, hashes everything from there to EOF and
\* starts its reader there.
HeaderCovers(H) ==
    /\ enc.pc \in {"copy", "mac", "seek2", "hdr2", "sync", "close", "rename"}
          => enc.regionOff = H
    /\ enc.pc \in {"sync", "close", "rename"} => enc.outOff = H
    /\ (enc.pc = "done" /\ enc.err = "nil") => (enc.regionOff = H /\ enc.outOff = H)
    /\ dec.pc \in {"derive", "hash", "compare", "seekback", "copy", "sync", "close", "rename"}
          => dec.ciphertextOffset = H
    /\ dec.pc \in {"compare", "seekback", "copy", "sync", "close", "rename"}
          => dec.mac = Mac(dec.macKey, fs.c.region)
    /\ dec.pc \in {"copy", "sync", "close", "rename"}
          => (dec.inOff = H /\ src = fs.c.region)

\* C19 as the code has it: the header is exactly 105 bytes (32 + 4 + 4 + 1
\* + 64, no padding); the ciphertext region and the bytes under the MAC
\* start at offset 105 in both operations and the header rewrite changes no
\* byte at or after that offset.
HeaderSize105 == HeaderCovers(105)

\* C19 as stated: the same with a header of 141 bytes.
HeaderSize141 == HeaderCovers(141)

\* decryptFile is in its decrypt pass on a file of several frames whose
\* header was rewritten by encryptFile.
HeaderSize105Witness ==
    /\ dec.pc = "copy"
    /\ dec.ciphertextOffset = 105
    /\ enc.outOff = 105
    /\ enc.regionOff = 105
    /\ Len(fs.c.region) >= 2
    /\ r.opens >= 1

\* C20: KDF parameter failure on decrypt.  When the header decryptFile read
\* has an argon_time or argon_lanes of 0, decryptFile returns an error
\* instead of aborting, reads no ciphertext, and leaves its output path as
\* it was and no temp file.
KdfFailureReturned ==
    (dec.pc \notin {"off", "create", "seek", "header"}
        /\ (dec.hdr.ArgonTime = 0 \/ dec.hdr.ArgonLanes = 0)) =>
            /\ dec.pc # "panic"
            /\ dec.mac = NoTag
            /\ r.pc = "off"
            /\ fs.o = fs.o0
            /\ DecEnded => (dec.err # "nil" /\ ~fs.otemp.exists)

====
